---- MODULE Spec2Model ----
(***************************************************************************)
(* A model of MindVaultPrototype (src/prototype1.py): the chunker, the     *)
(* SQLite-backed store with its ingestion transaction, the TF-IDF search   *)
(* with its ranking, and the document listing.                             *)
(*                                                                         *)
(* Text is a sequence of one-character strings.  Scores are hundredths     *)
(* (a cosine of 0.1 is 10).                                                *)
(***************************************************************************)
EXTENDS Integers, Sequences, FiniteSets

VARIABLES
    documents,  \* committed rows of table documents, in rowid order
    chunks,     \* committed rows of table chunks, in rowid order
    lock,       \* the connection holding SQLite's write lock, or NoCaller
    pc,         \* per caller: its position in add_document
    frame,      \* per caller: the locals of its add_document call
    tx,         \* per caller: the uncommitted rows of its connection
    log,        \* history: the completed add_document calls, in order
    out,        \* the last value returned by search_documents / get_all_documents
    cin,        \* the arguments of a direct chunk_text call
    cout        \* the outcome of that chunk_text call

vars == <<documents, chunks, lock, pc, frame, tx, log, out, cin, cout>>

storeVars == <<documents, chunks, lock, pc, frame, tx, log>>

(***************************************************************************)
(* Bounds of the model.                                                    *)
(***************************************************************************)
MaxTextLen == 6      \* characters of a chunk_text input under SpecChunk
MaxChunkSize == 3    \* chunk_size arguments tried under SpecChunk
MaxOverlap == 4      \* overlap arguments tried under SpecChunk
MaxCalls == 2        \* add_document calls in one behaviour
MaxLimit == 3        \* limit arguments tried for search_documents

(***************************************************************************)
(* Program constants.                                                      *)
(***************************************************************************)
DefaultChunkSize == 500
DefaultOverlap == 50
MinScore == 10
PreviewLen == 100

Min(a, b) == IF a < b THEN a ELSE b

Max(a, b) == IF a > b THEN a ELSE b

(***************************************************************************)
(* Strings.                                                                *)
(***************************************************************************)
Whitespace == {" ", "\n"}

IsWs(s, i) == s[i] \in Whitespace

\* i is the first character of a maximal run of non-whitespace
WordStart(s, i) == ~IsWs(s, i) /\ (i = 1 \/ IsWs(s, i - 1))

RECURSIVE WordEnd(_, _)
WordEnd(s, i) ==
    IF i = Len(s) \/ IsWs(s, i + 1) THEN i ELSE WordEnd(s, i + 1)

\* the words that start in s[lo..hi], in order
RECURSIVE SplitRange(_, _, _)
SplitRange(s, lo, hi) ==
    IF lo > hi THEN <<>>
    ELSE IF lo = hi
         THEN IF WordStart(s, lo) THEN <<SubSeq(s, lo, WordEnd(s, lo))>> ELSE <<>>
         ELSE LET mid == (lo + hi) \div 2
              IN  SplitRange(s, lo, mid) \o SplitRange(s, mid + 1, hi)

\* str.split(): the maximal runs of non-whitespace; no empty strings
Split(s) == SplitRange(s, 1, Len(s))

\* ' '.join(words[lo..hi])
RECURSIVE JoinRange(_, _, _)
JoinRange(words, lo, hi) ==
    IF lo > hi THEN <<>>
    ELSE IF lo = hi THEN words[lo]
         ELSE LET mid == (lo + hi) \div 2
              IN  JoinRange(words, lo, mid) \o <<" ">> \o JoinRange(words, mid + 1, hi)

Join(words) == JoinRange(words, 1, Len(words))

\* words[lo:hi] for 0 <= lo, 0 <= hi (0-based, hi exclusive, clipped)
PySlice(words, lo, hi) == SubSeq(words, lo + 1, Min(hi, Len(words)))

(***************************************************************************)
(* chunk_text                                                              *)
(***************************************************************************)
ChunkAtShort(words, i, chunk_size) == Join(PySlice(words, i, i + chunk_size - 1))

\* the loop body at word offset i
ChunkAt(words, i, chunk_size) == Join(PySlice(words, i, i + chunk_size))

\* for i in range(start, len(words), step), step > 0
RECURSIVE ChunkLoop(_, _, _, _)
ChunkLoop(words, i, chunk_size, step) ==
    IF i >= Len(words) THEN <<>>
    ELSE <<ChunkAt(words, i, chunk_size)>> \o ChunkLoop(words, i + step, chunk_size, step)

\* range(0, n, step): raises ValueError for step 0, is empty for step < 0
RangeOutcome(step) ==
    IF step = 0 THEN "ValueError" ELSE IF step < 0 THEN "empty" ELSE "loop"

chunk_text(text, chunk_size, overlap) ==
    LET words == Split(text)
        step  == chunk_size - overlap
        r     == RangeOutcome(step)
    IN  IF r = "ValueError" THEN [kind |-> "ValueError", chunks |-> <<>>]
        ELSE IF r = "empty" THEN [kind |-> "ok", chunks |-> <<>>]
        ELSE [kind |-> "ok", chunks |-> ChunkLoop(words, 0, chunk_size, step)]

(***************************************************************************)
(* Inputs of the model: contents and titles handed to add_document.        *)
(***************************************************************************)
Word(w, n) == [i \in 1..n |-> w]

CEmpty == <<>>

CShort == <<"a", "a">>

CStop == <<"a", "s">>

\* 100 characters, 34 words
C100 == Join(Word(<<"a", "a">>, 33)) \o <<" ", "s">>

\* 101 characters, 34 words, one of the separators a newline
C101 == Join(Word(<<"s", "s">>, 33)) \o <<"\n", "a", "a">>

\* 451 words: two chunks under the default configuration
CLong == Join(Word(<<"a", "a">>, 451))

ConcContents == {CEmpty, CShort, CLong}

SeqContents == {CStop, CShort, C100, C101}

Titles == {"Notes", "Draft"}

Callers == {"c1", "c2"}

NoCaller == "none"

\* hashlib.md5(content.encode()).hexdigest(), on the contents of the model
md5(content) ==
    CASE content = CEmpty -> "d41d8cd98f00b204e9800998ecf8427e"
      [] content = CShort -> "4124bc0a9335c27f086f24ba207a4912"
      [] content = CStop  -> "f970e2767d0cfe75876ea857f92e319b"
      [] content = C100   -> "0ee7e7f22fa1b3e9d03b393538f5735e"
      [] content = C101   -> "eac6d6e0f15bbde9efe1858ffbd2b253"
      [] content = CLong  -> "e79a675a7675f0a80084b80040924aea"

(***************************************************************************)
(* The store: tables documents and chunks, and a connection's transaction. *)
(***************************************************************************)
EmptyTx == [documents |-> <<>>, chunks |-> <<>>]

EmptyFrame == [title |-> "", content |-> <<>>, content_hash |-> "",
               document_id |-> 0, chunks |-> <<>>, i |-> 0, seen |-> 0]

\* what a call hands back: a document id, None, or a raised exception
RetId(id) == [kind |-> "id", id |-> id]

RetNone == [kind |-> "None", id |-> 0]

Raised(e) == [kind |-> e, id |-> 0]

NoOut == [op |-> "none"]

NoCall == [kind |-> "none", chunks |-> <<>>]

Committed == [documents |-> documents, chunks |-> chunks]

\* the fingerprint add_document stores with the row
ContentHashTitled(title, content) == title \o md5(content)

content_hash_of(title, content) == md5(content)

\* content_hash TEXT UNIQUE: a visible row already carries the hash
NoUniqueConstraint(rows, h) == FALSE

UniqueViolation(rows, h) == \E k \in DOMAIN rows : rows[k].content_hash = h

\* id INTEGER PRIMARY KEY AUTOINCREMENT: one more than the rows there are
\* (nothing is ever deleted, and a rollback restores the sequence)
NextRowId(rows) == Len(rows) + 1

document_row(id, title, content, h) ==
    [id |-> id, title |-> title, content |-> content, content_hash |-> h]

chunk_row(id, document_id, text, index) ==
    [id |-> id, document_id |-> document_id, chunk_text |-> text,
     chunk_index |-> index]

\* conn.commit(): the pending rows become part of the tables
conn_commit(store, t) ==
    [documents |-> store.documents \o t.documents,
     chunks    |-> store.chunks \o t.chunks]

\* conn.close() with rows pending: they are rolled back
conn_close_commits(store, t) == conn_commit(store, t)

conn_close(store, t) == store

Started == Len(log) + Cardinality({q \in Callers : pc[q] # "idle"})

(***************************************************************************)
(* add_document, one step per statement that touches the database.        *)
(***************************************************************************)
Call(p, title, content) ==
    /\ pc[p] = "idle"
    /\ pc' = [pc EXCEPT ![p] = "insert_document"]
    /\ frame' = [frame EXCEPT ![p] =
                    [EmptyFrame EXCEPT !.title = title, !.content = content,
                        !.content_hash = content_hash_of(title, content),
                        !.seen = Len(log)]]
    /\ out' = NoOut
    /\ UNCHANGED <<documents, chunks, lock, tx, log, cin, cout>>

\* the finally clause and the return: close the connection, hand ret back
Finish(p, ret, store, t) ==
    LET closed == conn_close(store, t)
    IN  /\ documents' = closed.documents
        /\ chunks' = closed.chunks
        /\ lock' = IF lock = p THEN NoCaller ELSE lock
        /\ tx' = [tx EXCEPT ![p] = EmptyTx]
        /\ pc' = [pc EXCEPT ![p] = "idle"]
        /\ frame' = [frame EXCEPT ![p] = EmptyFrame]
        /\ log' = Append(log, [caller |-> p, title |-> frame[p].title,
                               content |-> frame[p].content, ret |-> ret,
                               seen |-> frame[p].seen,
                               rows |-> Len(tx[p].documents) + Len(tx[p].chunks)])
        /\ UNCHANGED <<out, cin, cout>>

\* INSERT INTO documents; lastrowid; chunk_text(content)
InsertDocument(p) ==
    /\ pc[p] = "insert_document"
    /\ lock = NoCaller
    /\ LET f == frame[p]
           visible == documents \o tx[p].documents
           r == chunk_text(f.content, DefaultChunkSize, DefaultOverlap)
           id == NextRowId(visible)
           t1 == [tx[p] EXCEPT !.documents =
                     Append(@, document_row(id, f.title, f.content, f.content_hash))]
       IN  IF UniqueViolation(visible, f.content_hash)
           THEN Finish(p, RetNone, Committed, tx[p])
           ELSE IF r.kind # "ok"
           THEN Finish(p, Raised(r.kind), Committed, t1)
           ELSE /\ lock' = p
                /\ tx' = [tx EXCEPT ![p] = t1]
                /\ frame' = [frame EXCEPT ![p].document_id = id,
                                          ![p].chunks = r.chunks, ![p].i = 0]
                /\ pc' = [pc EXCEPT ![p] = "insert_chunks"]
                /\ UNCHANGED <<documents, chunks, log, out, cin, cout>>

\* one round of: for i, chunk in enumerate(chunks): INSERT INTO chunks
InsertChunk(p) ==
    /\ pc[p] = "insert_chunks"
    /\ frame[p].i < Len(frame[p].chunks)
    /\ LET f == frame[p]
           id == NextRowId(chunks \o tx[p].chunks)
       IN  /\ tx' = [tx EXCEPT ![p].chunks =
                        Append(@, chunk_row(id, f.document_id, f.chunks[f.i + 1], f.i))]
           /\ frame' = [frame EXCEPT ![p].i = f.i + 1]
    /\ UNCHANGED <<documents, chunks, lock, pc, log, out, cin, cout>>

\* conn.commit(); return document_id
Commit(p) ==
    /\ pc[p] = "insert_chunks"
    /\ frame[p].i = Len(frame[p].chunks)
    /\ Finish(p, RetId(frame[p].document_id), conn_commit(Committed, tx[p]), EmptyTx)

\* a statement or the commit raises sqlite3.OperationalError (disk full, I/O
\* error, database is locked): not an IntegrityError, so it propagates
Fault(p) ==
    /\ pc[p] \in {"insert_document", "insert_chunks"}
    /\ Finish(p, Raised("OperationalError"), Committed, tx[p])

Init ==
    /\ documents = <<>>
    /\ chunks = <<>>
    /\ lock = NoCaller
    /\ pc = [p \in Callers |-> "idle"]
    /\ frame = [p \in Callers |-> EmptyFrame]
    /\ tx = [p \in Callers |-> EmptyTx]
    /\ log = <<>>
    /\ out = NoOut
    /\ cin = <<>>
    /\ cout = NoCall

Next ==
    \E p \in Callers :
        \/ /\ Started < MaxCalls
           /\ \E c \in ConcContents : Call(p, "Notes", c)
        \/ InsertDocument(p)
        \/ InsertChunk(p)
        \/ Commit(p)
        \/ Fault(p)

Spec == Init /\ [][Next]_vars

(***************************************************************************)
(* search_documents: the TF-IDF index and the ranking.                     *)
(***************************************************************************)
Range(f) == {f[k] : k \in DOMAIN f}

\* the members of sklearn's English stop-word list the model's texts can spell
StopWords == {<<"a", "s">>}

\* token_pattern (?u)\b\w\w+\b: runs of two or more word characters
Tokens(text) == {w \in Range(Split(text)) : Len(w) >= 2}

\* the vocabulary TfidfVectorizer(stop_words='english') fits on the texts
Vocabulary(texts) == UNION {Tokens(texts[k]) : k \in DOMAIN texts} \ StopWords

\* the cosine scores the model distinguishes: 0, 0.10, 0.11 and 0.60
PositiveScores == {10, 11, 60}

SharesTerm(text, query) == (Tokens(text) \cap Tokens(query)) \ StopWords # {}

\* cosine_similarity(query_vector, chunk_vectors).flatten(): the weights are
\* not computed; a chunk scores 0 exactly when it shares no vocabulary term
\* with the query, and equal texts score alike
Similarities(chunk_texts, query) ==
    LET sharing == {k \in DOMAIN chunk_texts : SharesTerm(chunk_texts[k], query)}
    IN  {s \in {[k \in DOMAIN chunk_texts |-> IF k \in sharing THEN f[k] ELSE 0] :
                    f \in [sharing -> PositiveScores]} :
            \A k, m \in sharing : chunk_texts[k] = chunk_texts[m] => s[k] = s[m]}

\* similarities.argsort(): indices by ascending score; numpy's default sort
\* is not stable, so any order among equal scores
Argsort(sims) ==
    {perm \in [DOMAIN sims -> DOMAIN sims] :
        /\ \A k, m \in DOMAIN sims : k # m => perm[k] # perm[m]
        /\ \A k, m \in DOMAIN sims : k < m => sims[perm[k]] <= sims[perm[m]]}

\* a[-limit:]
PyLast(a, limit) ==
    LET n == Len(a)
        k == 0 - limit
        start == IF k < 0 THEN Max(n + k, 0) ELSE Min(k, n)
    IN  SubSeq(a, start + 1, n)

\* a[:limit] for limit >= 0
PyFirst(a, limit) == SubSeq(a, 1, Min(limit, Len(a)))

\* a[::-1]
Reverse(a) == [k \in 1..Len(a) |-> a[Len(a) + 1 - k]]

TopIndicesAscending(perm, limit) == PyLast(perm, limit)

TopIndicesLowest(perm, limit) == Reverse(PyFirst(perm, limit))

\* similarities.argsort()[-limit:][::-1]
top_indices(perm, limit) == Reverse(PyLast(perm, limit))

\* the rows of SELECT ... FROM chunks c JOIN documents d ON c.document_id = d.id
JoinRows(store) ==
    LET Parent(c) == {k \in DOMAIN store.documents :
                         store.documents[k].id = c.document_id}
        joined == SelectSeq(store.chunks, LAMBDA c : Parent(c) # {})
    IN  [k \in DOMAIN joined |->
            LET d == store.documents[CHOOSE j \in Parent(joined[k]) : TRUE]
            IN  [chunk_text |-> joined[k].chunk_text, title |-> d.title,
                 document_id |-> joined[k].document_id]]

\* the loop over top_indices: keep what scores above the cutoff
search_results(rows, sims, top) ==
    LET kept == SelectSeq(top, LAMBDA idx : sims[idx] > MinScore)
    IN  [k \in DOMAIN kept |->
            [pos |-> kept[k], content |-> rows[kept[k]].chunk_text,
             title |-> rows[kept[k]].title,
             document_id |-> rows[kept[k]].document_id,
             relevance |-> sims[kept[k]]]]

SearchOut(query, limit, built, err, sims, order, results) ==
    [op |-> "search", query |-> query, limit |-> limit, kind |-> "ok",
     built |-> built, st_error |-> err, sims |-> sims, order |-> order,
     results |-> results]

\* except Exception as e: st.error(...); return []
SearchErrorRaises(query, limit, e) ==
    [SearchOut(query, limit, TRUE, "", <<>>, <<>>, <<>>) EXCEPT !.kind = e]

OnSearchError(query, limit, e) ==
    SearchOut(query, limit, TRUE, e, <<>>, <<>>, <<>>)

\* every value search_documents(query, limit) can return on the store
search_returns(store, query, limit) ==
    LET rows == JoinRows(store)
        chunk_texts == [k \in DOMAIN rows |-> rows[k].chunk_text]
    IN  IF rows = <<>>
        THEN {SearchOut(query, limit, FALSE, "", <<>>, <<>>, <<>>)}
        ELSE IF Vocabulary(Append(chunk_texts, query)) = {}
        THEN {OnSearchError(query, limit, "ValueError")}
        ELSE {SearchOut(query, limit, TRUE, "", sims, perm,
                        search_results(rows, sims, top_indices(perm, limit))) :
                 <<sims, perm>> \in
                    UNION {{<<s, o>> : o \in Argsort(s)} :
                              s \in Similarities(chunk_texts, query)}}

Idle == \A p \in Callers : pc[p] = "idle"

search_documents(query, limit) ==
    /\ Idle
    /\ out = NoOut
    /\ out' \in search_returns(Committed, query, limit)
    /\ UNCHANGED <<storeVars, cin, cout>>

(***************************************************************************)
(* get_all_documents                                                       *)
(***************************************************************************)
SubstrLen == 100

Dots == <<".", ".", ".">>

\* SUBSTR(content, 1, 100)
Substr(content) == SubSeq(content, 1, Min(SubstrLen, Len(content)))

\* r[4] + '...' if len(r[4]) == 100 else r[4]
preview(r4) == IF Len(r4) = PreviewLen THEN r4 \o Dots ELSE r4

summary(d) ==
    [id |-> d.id, title |-> d.title, length |-> Len(d.content),
     preview |-> preview(Substr(d.content))]

\* ORDER BY created_at DESC: created_at is the wall clock at insertion, to
\* the second; the model keeps no clock and lets the rows come in any order
RowOrders(n) ==
    {o \in [1..n -> 1..n] : \A k, m \in 1..n : k # m => o[k] # o[m]}

get_all_documents ==
    /\ Idle
    /\ out = NoOut
    /\ \E o \in RowOrders(Len(documents)) :
          out' = [op |-> "list",
                  rows |-> [k \in 1..Len(documents) |-> summary(documents[o[k]])]]
    /\ UNCHANGED <<storeVars, cin, cout>>

(***************************************************************************)
(* SpecSeq: one caller, one call at a time, no storage failure (the        *)
(* single-threaded request/response use the program is written for).       *)
(***************************************************************************)
Queries == {<<"a", "a">>, <<"s", "s">>, <<"a", "s">>}

\* main() has rendered what the call returned; Streamlit runs the script
\* again on the next interaction
Rerun ==
    /\ out # NoOut
    /\ out' = NoOut
    /\ UNCHANGED <<storeVars, cin, cout>>

NextSeq ==
    \/ /\ Started < MaxCalls
       /\ \E t \in Titles, c \in SeqContents : Call("c1", t, c)
    \/ InsertDocument("c1")
    \/ InsertChunk("c1")
    \/ Commit("c1")
    \/ \E q \in Queries, l \in 0..MaxLimit : search_documents(q, l)
    \/ get_all_documents
    \/ Rerun

SpecSeq == Init /\ [][NextSeq]_vars

(***************************************************************************)
(* SpecChunk: chunk_text on every small text and configuration.           *)
(***************************************************************************)
ChunkAlphabet == {"a", "b", " "}

RECURSIVE TextsOfLen(_, _)
TextsOfLen(A, n) ==
    IF n = 0 THEN {<<>>}
    ELSE {Append(t, c) : t \in TextsOfLen(A, n - 1), c \in A}

TextsUpTo(A, n) == UNION {TextsOfLen(A, k) : k \in 0..n}

InitChunk ==
    /\ documents = <<>> /\ chunks = <<>> /\ lock = NoCaller
    /\ pc = <<>> /\ frame = <<>> /\ tx = <<>> /\ log = <<>> /\ out = NoOut
    /\ cin \in [text : TextsUpTo(ChunkAlphabet, MaxTextLen),
                chunk_size : 1..MaxChunkSize,
                overlap : 0..MaxOverlap]
    /\ cout = NoCall

CallChunkText ==
    /\ cout = NoCall
    /\ cout' = chunk_text(cin.text, cin.chunk_size, cin.overlap)
    /\ UNCHANGED <<storeVars, out, cin>>

NextChunk == CallChunkText

SpecChunk == InitChunk /\ [][NextChunk]_vars

(***************************************************************************)
(* Properties.                                                             *)
(***************************************************************************)
\* the completed calls before call n that were handed the same content
EarlierSame(n) == {j \in 1..(n - 1) : log[j].content = log[n].content}

\* the documents table after the first n completed calls, when each content
\* is stored by the first call that brings it and by no later one
RECURSIVE DocsAfter(_)
DocsAfter(n) ==
    IF n = 0 THEN <<>>
    ELSE LET prev == DocsAfter(n - 1)
         IN  IF EarlierSame(n) # {} THEN prev
             ELSE Append(prev, [id |-> Len(prev) + 1, title |-> log[n].title,
                                content |-> log[n].content,
                                content_hash |-> md5(log[n].content)])

\* the rows of table chunks that belong to document id, in rowid order
ChunksOf(id) == SelectSeq(chunks, LAMBDA c : c.document_id = id)

\* the chunks the chunker yields for the content, under the defaults
Yielded(content) == chunk_text(content, DefaultChunkSize, DefaultOverlap).chunks

HasAllItsChunks(d) ==
    LET rows == ChunksOf(d.id)
        want == Yielded(d.content)
    IN  /\ Len(rows) = Len(want)
        /\ \A k \in DOMAIN rows :
              rows[k].chunk_text = want[k] /\ rows[k].chunk_index = k - 1

\* C1: ingestion is idempotent on content.  The first call that brings a
\* content returns a document id, every later call with that content, under
\* any title, returns None (AlreadyExists), and the tables hold exactly what
\* the first calls stored: one document per content, with its chunks.
C1_IdempotentIngestion ==
    /\ \A n \in DOMAIN log :
          IF EarlierSame(n) = {}
          THEN log[n].ret = RetId(Cardinality({log[j].content : j \in 1..n}))
          ELSE log[n].ret = RetNone
    /\ documents = DocsAfter(Len(log))
    /\ \A k \in DOMAIN documents : HasAllItsChunks(documents[k])
    /\ \A k \in DOMAIN chunks :
          \E m \in DOMAIN documents : documents[m].id = chunks[k].document_id

C1_Witness ==
    /\ Idle
    /\ \E i, j \in DOMAIN log :
          /\ i < j
          /\ log[i].content = log[j].content
          /\ log[i].title # log[j].title
          /\ log[i].ret.kind = "id"
          /\ log[j].ret = RetNone
          /\ ChunksOf(log[i].ret.id) # <<>>

\* the rows a caller's connection sees: the tables and its own pending rows
Visible(p) == documents \o tx[p].documents

\* C2: under every interleaving of add_document calls no two document rows
\* carry the same fingerprint, at most one of the calls handed a content
\* obtains a document id for it, and a call that returns None does so because
\* the content is stored, by a call that returned its id before.
C2_UniqueFingerprint ==
    /\ \A p \in Callers : \A k, m \in DOMAIN Visible(p) :
          k # m => Visible(p)[k].content_hash # Visible(p)[m].content_hash
    /\ \A i, j \in DOMAIN log :
          (i # j /\ log[i].content = log[j].content)
              => ~(log[i].ret.kind = "id" /\ log[j].ret.kind = "id")
    /\ \A i \in DOMAIN log :
          /\ log[i].ret.kind = "None"
                => /\ \E k \in DOMAIN documents :
                         documents[k].content = log[i].content
                   /\ \E j \in 1..(i - 1) :
                         /\ log[j].content = log[i].content
                         /\ log[j].ret.kind = "id"
          /\ log[i].ret.kind = "id"
                => \E k \in DOMAIN documents :
                      /\ documents[k].id = log[i].ret.id
                      /\ documents[k].content = log[i].content

\* two callers were inside add_document with the same content at the same
\* time: the call that returned second began before the first returned
C2_Witness ==
    \E i, j \in DOMAIN log :
        /\ i < j
        /\ log[i].caller # log[j].caller
        /\ log[i].content = log[j].content
        /\ log[j].seen < i
        /\ log[i].ret.kind = "id"
        /\ log[j].ret = RetNone

\* C3: add_document is all-or-nothing.  Whatever calls completed, failed or
\* are under way, every stored document has exactly the chunks the chunker
\* yields for its content, indexed from 0 in order, every stored chunk has
\* its document, and the stored documents are those of the calls that
\* returned an id.
C3_AllOrNothing ==
    /\ \A k \in DOMAIN documents : HasAllItsChunks(documents[k])
    /\ \A k \in DOMAIN chunks :
          \E m \in DOMAIN documents : documents[m].id = chunks[k].document_id
    /\ Len(documents) = Cardinality({i \in DOMAIN log : log[i].ret.kind = "id"})
    /\ \A i \in DOMAIN log :
          log[i].ret.kind = "id"
              => \E m \in DOMAIN documents : documents[m].id = log[i].ret.id

\* a call failed after the document row and the first of two chunk rows
C3_Witness ==
    \E i \in DOMAIN log :
        /\ log[i].ret = Raised("OperationalError")
        /\ log[i].content = CLong
        /\ log[i].rows = 2
        /\ \A k \in DOMAIN documents : documents[k].content # CLong

Relevance(k) == out.results[k].relevance

\* C4: search_documents returns at most limit entries, each with a score
\* above the cutoff.
C4_RankingBound ==
    out.op = "search" =>
        /\ Len(out.results) <= out.limit
        /\ \A k \in DOMAIN out.results : Relevance(k) > MinScore

\* C5 as claimed: the returned entries are in descending score order and
\* entries with equal score are in corpus order.
C5_StableDescending ==
    out.op = "search" =>
        \A i, j \in DOMAIN out.results :
            i < j => \/ Relevance(i) > Relevance(j)
                     \/ /\ Relevance(i) = Relevance(j)
                        /\ out.results[i].pos < out.results[j].pos

\* C5, amended: the returned entries are in descending score order.
C5_Descending ==
    out.op = "search" =>
        \A i, j \in DOMAIN out.results : i < j => Relevance(i) >= Relevance(j)

\* two entries were returned against their corpus order, by score
C5_Witness ==
    /\ out.op = "search"
    /\ \E i, j \in DOMAIN out.results :
          /\ i < j
          /\ Relevance(i) > Relevance(j)
          /\ out.results[i].pos > out.results[j].pos

Returned == {out.results[k].pos : k \in DOMAIN out.results}

\* keep the entries above the cutoff, then take the first limit of them
FilterThenTruncate(ranking, sims, limit) ==
    PyFirst(SelectSeq(ranking, LAMBDA idx : sims[idx] > MinScore), limit)

\* C10: for limit >= 1 what search_documents returns (the top limit of the
\* descending ranking, then the cutoff) is what the cutoff first and the top
\* limit second give on the same ranking, and no entry above the cutoff is
\* left out while a lower-scored one is returned.
C10_TruncateFilterCommute ==
    (out.op = "search" /\ out.limit >= 1) =>
        /\ [k \in DOMAIN out.results |-> out.results[k].pos]
              = FilterThenTruncate(Reverse(out.order), out.sims, out.limit)
        /\ \A k \in DOMAIN out.sims \ Returned :
              out.sims[k] > MinScore
                  => \A r \in Returned : out.sims[r] >= out.sims[k]

\* the limit cuts off an entry above the cutoff, and the cutoff has work too
C10_Witness ==
    /\ out.op = "search"
    /\ out.limit >= 1
    /\ Len(out.results) = out.limit
    /\ \E k \in DOMAIN out.sims \ Returned : out.sims[k] > MinScore

\* C9: a search_documents call raises nothing and leaves the tables alone;
\* with no chunk stored it returns [] without building the index, and when
\* the vectorizer has no vocabulary to fit it returns [].
C9_SearchNeverRaises ==
    [][(out'.op = "search" /\ out' # out) =>
          LET rows == JoinRows(Committed)
              texts == [k \in DOMAIN rows |-> rows[k].chunk_text]
          IN  /\ out'.kind = "ok"
              /\ documents' = documents
              /\ chunks' = chunks
              /\ rows = <<>> => (out'.results = <<>> /\ ~out'.built)
              /\ (rows # <<>> /\ Vocabulary(Append(texts, out'.query)) = {})
                    => out'.results = <<>>]_vars

\* the index build failed on a store that has chunks
C9_Witness ==
    /\ out.op = "search"
    /\ out.kind = "ok"
    /\ out.st_error = "ValueError"
    /\ out.results = <<>>
    /\ chunks # <<>>

DocumentById(id) == documents[CHOOSE k \in DOMAIN documents : documents[k].id = id]

\* C8: the preview of a listed document is the first 100 characters of its
\* content, followed by the dots exactly when the content is longer than that.
C8_PreviewEllipsis ==
    out.op = "list" =>
        \A k \in DOMAIN out.rows :
            LET content == DocumentById(out.rows[k].id).content
            IN  out.rows[k].preview =
                    IF Len(content) > 100
                    THEN SubSeq(content, 1, 100) \o Dots
                    ELSE content

Ceil(a, b) == (a + b - 1) \div b

RECURSIVE SumLen(_)
SumLen(ws) == IF ws = <<>> THEN 0 ELSE Len(Head(ws)) + SumLen(Tail(ws))

\* C6: with 0 <= overlap < chunk_size the chunks are the windows of at most
\* chunk_size words at word offsets 0, step, 2*step, ..., each the words
\* joined by single spaces, every word is in some window, and an empty text
\* gives no chunk.
C6_ChunkCoverage ==
    (cout.kind # "none" /\ cin.overlap < cin.chunk_size) =>
        LET words == Split(cin.text)
            n     == Len(words)
            step  == cin.chunk_size - cin.overlap
            Off(j) == (j - 1) * step
            Window(j) == SubSeq(words, Off(j) + 1, Min(Off(j) + cin.chunk_size, n))
        IN  /\ cout.kind = "ok"
            /\ Len(cout.chunks) = Ceil(n, step)
            /\ \A j \in DOMAIN cout.chunks :
                  /\ Split(cout.chunks[j]) = Window(j)
                  /\ Window(j) # <<>>
                  /\ Len(cout.chunks[j]) = SumLen(Window(j)) + Len(Window(j)) - 1
            /\ \A w \in 1..n :
                  \E j \in DOMAIN cout.chunks :
                      Off(j) < w /\ w <= Off(j) + Len(Window(j))
            /\ n = 0 => cout.chunks = <<>>

C6_Witness ==
    /\ cout.kind = "ok"
    /\ cin.overlap >= 1
    /\ cin.overlap < cin.chunk_size
    /\ Len(cout.chunks) >= 2
    /\ Len(Split(cout.chunks[Len(cout.chunks)])) < cin.chunk_size

\* C7: with overlap >= chunk_size, chunk_text either raises or chunks with a
\* step clamped to some value >= 1.
C7_StepGuard ==
    (cout.kind # "none" /\ cin.overlap >= cin.chunk_size) =>
        \/ cout.kind # "ok"
        \/ \E step \in 1..(MaxTextLen + 1) :
              cout.chunks = ChunkLoop(Split(cin.text), 0, cin.chunk_size, step)

====
